---- MODULE Spec2Model ----
(***************************************************************************)
(* Model of the WaterKit water optimizer (src/waterkit/optimize.py) and of  *)
(* the AutoDock force field (src/waterkit/forcefield.py).                  *)
(*                                                                         *)
(* In the optimizer lengths are integers in tenths of an angstrom, so that *)
(* the distance comparisons of the code are exact comparisons of squared   *)
(* integers, and angles are integers in degrees.  The force field and the  *)
(* smoothing of distances use eighths of an angstrom.                      *)
(***************************************************************************)
EXTENDS Integers, Sequences, FiniteSets, TLC

VARIABLES
    how,              \* WaterOptimizer._how
    shell_xyz,        \* oxygen coordinates of the waters of the shell
    shell_energy,     \* df['energy_position'] of the shell
    shell_xray,       \* df['xray'] of the shell
    box_active,       \* the 'active' column kept by the water box
    active_before,    \* that column as it was when the running call began
    df_active,        \* df['active'] inside activate_molecules_in_shell
    groups,           \* clusters not yet visited by the groupby loop
    pool,             \* cluster.index: waters still in the running cluster
    to_activate,      \* to_activate of the running cluster
    activated,        \* every water put in to_activate during the call
    act_pc,           \* position inside activate_molecules_in_shell
    rotation,         \* WaterOptimizer._rotation, degrees
    energy_cutoff,    \* WaterOptimizer._energy_cutoff
    opt_flags,        \* opt_position, opt_rotation, opt_disordered
    ad_map,           \* the energy grid of the water box
    receptor,         \* the solute: molecules_in_shell(0)[0]
    waters,           \* the water objects of the list given to optimize
    connections,      \* the connections table given to optimize, or None
    opt_pc,           \* position inside optimize
    opt_i,            \* index of the running loop of optimize
    data,             \* rows of the shell table
    to_be_removed,    \* indices of the rejected waters
    disordered_energies, \* result of _optimize_disordered_waters
    searched,         \* waters in the order their position was searched
    ret_waters,       \* returned list, as indices into waters
    ret_connections,  \* returned connections table
    sweeps,           \* per rotatable bond: the angles sampled and their scores
    atom_par,         \* AutoDockForceField.atom_par, by atom type
    weights,          \* AutoDockForceField.weights
    pairwise,         \* AutoDockForceField.pairwise, by (i, j)
    ff_pc,            \* the last operation made on the force field
    n_deactivate,     \* number of deactivate_pairs calls made so far
    pairs,            \* argument of the last deactivate_pairs call
    pairwise_before,  \* the table as it was when that call began
    printed,          \* what that call printed
    atoms,            \* arguments of the last intermolecular_energy call
    ff_energy,        \* its result with details=True, and the evaluations made
    sm_r,             \* array of distances given to the smoothing
    sm_reqm,          \* equilibrium distance given to the smoothing
    sm_vector,        \* result of AutoDockForceField.smooth_distance
    sm_scalar,        \* results of WaterOptimizer._smooth_distance
    sm_twice,         \* result of smoothing sm_vector once more
    sm_pc             \* position in the smoothing calls

shellVars == <<how, shell_xyz, shell_energy, shell_xray, box_active,
               active_before, df_active, groups, pool, to_activate, activated, act_pc>>

optVars == <<rotation, energy_cutoff, opt_flags, ad_map, receptor, waters,
             connections, opt_pc, opt_i, data, to_be_removed,
             disordered_energies, searched, ret_waters, ret_connections,
             sweeps>>

ffVars == <<atom_par, weights, pairwise, ff_pc, n_deactivate, pairs,
            pairwise_before, printed, atoms, ff_energy>>

smVars == <<sm_r, sm_reqm, sm_vector, sm_scalar, sm_twice, sm_pc>>

vars == <<shellVars, optVars, ffVars, smVars>>

(***************************************************************************)
(* Bounds and input domains                                                *)
(***************************************************************************)
MaxWaters == 3

Hows == {"best", "boltzmann", "all"}

\* Candidate oxygen sites: 0-1 are 2.0 A apart (clash), 1-2 are exactly
\* 2.5 A apart (no clash, same cluster), 0-2 are 3.2 A apart (two clusters
\* unless chained through site 1).
Sites == {<<0, 0, 0>>, <<20, 0, 0>>, <<20, 25, 0>>}

Energies == {-2, -1}

(***************************************************************************)
(* Program constants                                                       *)
(***************************************************************************)
cluster_distance == 27
minimal_distance == 25

(***************************************************************************)
(* Helpers                                                                 *)
(***************************************************************************)
Min(S) == CHOOSE x \in S : \A y \in S : x <= y

Sq(x) == x * x

\* utils.get_euclidean_distance, squared
Dist2(a, b) == Sq(a[1] - b[1]) + Sq(a[2] - b[2]) + Sq(a[3] - b[3])

SeqsUpTo(S, n) == UNION {[1..k -> S] : k \in 0..n}

(***************************************************************************)
(* _cluster: single linkage cut at `distance`; two waters share a flat     *)
(* cluster iff a chain of hops no longer than `distance` joins them.       *)
(***************************************************************************)
RECURSIVE Reach(_, _, _)
Reach(S, xyz, distance) ==
    LET T == S \cup {j \in DOMAIN xyz :
                       \E i \in S : Dist2(xyz[i], xyz[j]) <= Sq(distance)}
    IN  IF T = S THEN S ELSE Reach(T, xyz, distance)

\* groups of df.groupby('cluster_id', sort=False): order of first appearance
RECURSIVE GroupsFrom(_, _, _)
GroupsFrom(rest, xyz, distance) ==
    IF rest = {} THEN <<>>
    ELSE LET c == Reach({Min(rest)}, xyz, distance)
         IN  <<c>> \o GroupsFrom(rest \ c, xyz, distance)

_cluster(xyz, distance) == GroupsFrom(DOMAIN xyz, xyz, distance)

\* cluster['energy_position'].idxmin(): first row holding the minimum
IdxMin(P, energy) ==
    Min({k \in P : \A j \in P : energy[k] <= energy[j]})

\* _boltzmann_choice: every row has a positive probability
BoltzmannChoice(P) == P

\* best_water_ids read from the dataframe of the shell instead of the copy
\* of the cluster
BestWaterIds_whole_shell(P) ==
    LET df == DOMAIN shell_xyz
    IN  IF \E k \in df : shell_xray[k]
        THEN {{k \in df : shell_xray[k]}}
        ELSE IF how = "best" THEN {{IdxMin(df, shell_energy)}}
             ELSE {{k} : k \in BoltzmannChoice(df)}

\* best_water_ids without the crystallographic preference
BestWaterIds_energy_only(P) ==
    IF how = "best" THEN {{IdxMin(P, shell_energy)}}
    ELSE {{k} : k \in BoltzmannChoice(P)}

\* best_water_ids of one pass of the while loop
BestWaterIds(P) ==
    IF \E k \in P : shell_xray[k]
    THEN {{k \in P : shell_xray[k]}}
    ELSE IF how = "best" THEN {{IdxMin(P, shell_energy)}}
         ELSE {{k} : k \in BoltzmannChoice(P)}

\* to_drop that forgets the waters clashing with a representative
ToDrop_none(P, best) == {}

\* to_drop that removes every water within the cluster distance
ToDrop_wide(P, best) ==
    {w \in P \ best :
        \E b \in best : Dist2(shell_xyz[b], shell_xyz[w]) <= Sq(cluster_distance)}

\* to_drop of one pass of the while loop
ToDrop(P, best) ==
    {w \in P \ best :
        \E b \in best : Dist2(shell_xyz[b], shell_xyz[w]) < Sq(minimal_distance)}

\* no force field is built
ForceFieldUnused ==
    /\ atom_par = <<>>
    /\ weights = <<>>
    /\ pairwise = <<>>
    /\ ff_pc = "unused"
    /\ n_deactivate = 0
    /\ pairs = <<>>
    /\ pairwise_before = <<>>
    /\ printed = <<>>
    /\ atoms = <<>>
    /\ ff_energy = <<>>

\* no distance is smoothed
SmoothUnused ==
    /\ sm_r = <<>>
    /\ sm_reqm = 0
    /\ sm_vector = <<>>
    /\ sm_scalar = <<>>
    /\ sm_twice = <<>>
    /\ sm_pc = "unused"

\* optimize is not running
OptimizeUnused ==
    /\ rotation = 360
    /\ energy_cutoff = 0
    /\ opt_flags = [position |-> FALSE, rotation |-> FALSE, disordered |-> FALSE]
    /\ ad_map = [well |-> <<0, 0, 0>>, wall |-> <<0, 0, 0>>]
    /\ receptor = [bonds |-> <<>>]
    /\ waters = <<>>
    /\ connections = [none |-> TRUE, rows |-> <<>>]
    /\ opt_pc = "unused"
    /\ opt_i = 0
    /\ data = <<>>
    /\ to_be_removed = <<>>
    /\ disordered_energies = <<>>
    /\ searched = <<>>
    /\ ret_waters = <<>>
    /\ ret_connections = [none |-> TRUE, rows |-> <<>>]
    /\ sweeps = <<>>

(***************************************************************************)
(* activate_molecules_in_shell                                             *)
(***************************************************************************)
InitShell ==
    /\ how \in Hows
    /\ shell_xyz \in SeqsUpTo(Sites, MaxWaters)
    /\ shell_energy \in [DOMAIN shell_xyz -> Energies]
    /\ shell_xray \in [DOMAIN shell_xyz -> BOOLEAN]
    /\ box_active = [k \in DOMAIN shell_xyz |-> FALSE]
    /\ active_before = box_active
    /\ df_active = box_active
    /\ groups = <<>>
    /\ pool = {}
    /\ to_activate = {}
    /\ activated = {}
    /\ act_pc = "call"
    /\ OptimizeUnused
    /\ ForceFieldUnused
    /\ SmoothUnused

\* lines 384-397: read the shell and cluster it; line 442 names the
\* undefined variable `how`, so any other policy ends in a NameError.
\* The method can be called again on the same shell once it has returned.
ActivateEnter ==
    /\ act_pc \in {"call", "done", "NameError"}
    /\ active_before' = box_active
    /\ df_active' = box_active
    /\ activated' = {}
    /\ to_activate' = {}
    /\ pool' = {}
    /\ IF how \in {"best", "boltzmann"}
       THEN /\ groups' = _cluster(shell_xyz, cluster_distance)
            /\ act_pc' = "groupby"
       ELSE /\ groups' = <<>>
            /\ act_pc' = "NameError"
    /\ UNCHANGED <<optVars, ffVars, smVars>>
    /\ UNCHANGED <<how, shell_xyz, shell_energy, shell_xray, box_active>>

\* lines 399-402: next cluster of the groupby loop
NextCluster ==
    /\ act_pc = "groupby"
    /\ groups # <<>>
    /\ pool' = Head(groups)
    /\ groups' = Tail(groups)
    /\ to_activate' = {}
    /\ act_pc' = "while"
    /\ UNCHANGED <<optVars, ffVars, smVars>>
    /\ UNCHANGED <<how, shell_xyz, shell_energy, shell_xray, box_active,
                   active_before, df_active, activated>>

\* lines 413-437: one pass of the while loop
SelectInCluster ==
    /\ act_pc = "while"
    /\ pool # {}
    /\ \E best \in BestWaterIds(pool) :
          /\ to_activate' = to_activate \cup best
          /\ activated' = activated \cup best
          /\ pool' = (pool \ best) \ ToDrop(pool, best)
    /\ UNCHANGED <<optVars, ffVars, smVars>>
    /\ UNCHANGED <<how, shell_xyz, shell_energy, shell_xray, box_active,
                   active_before, df_active, groups, act_pc>>

\* line 440: df.loc[to_activate, 'active'] = True
ActivateCluster ==
    /\ act_pc = "while"
    /\ pool = {}
    /\ df_active' = [k \in DOMAIN df_active |->
                        IF k \in to_activate THEN TRUE ELSE df_active[k]]
    /\ act_pc' = "groupby"
    /\ UNCHANGED <<optVars, ffVars, smVars>>
    /\ UNCHANGED <<how, shell_xyz, shell_energy, shell_xray, box_active,
                   active_before, groups, pool, to_activate, activated>>

\* line 446: update_informations_in_shell(df['active'].values, ...)
ActivateReturn ==
    /\ act_pc = "groupby"
    /\ groups = <<>>
    /\ box_active' = df_active
    /\ act_pc' = "done"
    /\ UNCHANGED <<optVars, ffVars, smVars>>
    /\ UNCHANGED <<how, shell_xyz, shell_energy, shell_xray,
                   active_before, df_active, groups, pool, to_activate,
                   activated>>

NextShell ==
    \/ ActivateEnter
    \/ NextCluster
    \/ SelectInCluster
    \/ ActivateCluster
    \/ ActivateReturn

SpecShell == InitShell /\ [][NextShell]_vars

\* The loop of a cluster does not depend on the order of the waters in the
\* shell but for ties of energy, broken by the index: here the waters come
\* by non-increasing energy, at any positions.
InitShellLoop ==
    /\ InitShell
    /\ how \in {"best", "boltzmann"}
    /\ \A j, k \in DOMAIN shell_energy :
          j < k => shell_energy[j] >= shell_energy[k]

\* The method runs to its end once called: a pass of the while loop of line
\* 413 that can be made is made.
SpecShellLoop ==
    InitShellLoop /\ [][NextShell]_vars /\ WF_vars(SelectInCluster)

(***************************************************************************)
(* Program constants of WaterOptimizer                                     *)
(***************************************************************************)
_distance == 34
_angle == 145
closest_distance == 34

(***************************************************************************)
(* Geometry and energy grid used by optimize.  The grid nodes are the      *)
(* lattice points of the plane z = 0 with 1 A spacing inside the map box;  *)
(* the solute's rotatable bonds run along z, so that rotations by          *)
(* multiples of 90 degrees map lattice points onto lattice points.         *)
(***************************************************************************)
MapHalf == 40
GridSpacing == 10

Lattice == {-40, -30, -20, -10, 0, 10, 20, 30, 40}

\* Map.is_in_map
is_in_map(p) ==
    /\ -MapHalf <= p[1] /\ p[1] <= MapHalf
    /\ -MapHalf <= p[2] /\ p[2] <= MapHalf

GridNodes == {<<x, y, 0>> : x \in Lattice, y \in Lattice}

\* Energy assigned to coordinates outside the map (never favourable)
OutsideEnergy == 9

\* Map.energy / Map.energy_coordinates for the oxygen type: a landscape with
\* one favourable well, its shoulder, and one unfavourable wall
MapEnergy(m, p) ==
    IF ~is_in_map(p) THEN OutsideEnergy
    ELSE IF p = m.well THEN -3
    ELSE IF Dist2(p, m.wall) <= Sq(GridSpacing) THEN 2
    ELSE IF Dist2(p, m.well) <= Sq(GridSpacing) THEN -2
    ELSE IF p[2] >= 0 THEN -1
    ELSE 0

\* The radii _optimize_position asks for: acceptor and donor anchors
Radii == {<<25, _distance>>, <<25 - 10, _distance - 10>>}

\* The displacements between grid nodes whose length lies in the closed
\* annulus, tabulated once for each pair of radii
Ring ==
    [r \in Radii |->
        {d \in GridNodes :
            LET d2 == Dist2(<<0, 0, 0>>, d)
            IN  Sq(r[1]) <= d2 /\ d2 <= Sq(r[2])}]

\* Map.neighbor_points: the grid nodes in the closed annulus around the
\* centre, itself a lattice point
neighbor_points(center, min_radius, max_radius) ==
    {p \in {<<center[1] + d[1], center[2] + d[2], center[3] + d[3]>> :
                d \in Ring[<<min_radius, max_radius>>]} : is_in_map(p)}

\* cos^2 of the minimum angle, in thousandths (angles of 90 degrees or more)
CosSqThousandths(a) ==
    CASE a = 90 -> 0
      [] a = 120 -> 250
      [] a = 145 -> 671
      [] a = 180 -> 1000

Dot(u, v) == u[1] * v[1] + u[2] * v[2] + u[3] * v[3]

Vec(a, b) == <<b[1] - a[1], b[2] - a[2], b[3] - a[3]>>

\* utils.get_angle(p, a0, a1) >= a: the angle at a0 between p and a1
AngleAtLeast(p, a0, a1, a) ==
    LET u == Vec(a0, p)
        v == Vec(a0, a1)
        d == Dot(u, v)
    IN  /\ d <= 0
        /\ Sq(d) * 1000 >= CosSqThousandths(a) * Dot(u, u) * Dot(v, v)

\* utils.rotate_point about the axis through c parallel to z, by a
\* multiple of 90 degrees
RECURSIVE QuarterTurns(_, _, _)
QuarterTurns(p, c, k) ==
    IF k = 0 THEN p
    ELSE QuarterTurns(<<c[1] - (p[2] - c[2]), c[2] + (p[1] - c[1]), p[3]>>,
                      c, k - 1)

rotate_point(p, c, degrees) == QuarterTurns(p, c, (degrees \div 90) % 4)

(***************************************************************************)
(* The solute.  Atom 1 is an acceptor whose waters sit towards +x, atom 2  *)
(* a donor hydrogen on a rotatable bond whose waters sit towards +y, atom  *)
(* 3 an acceptor at the edge of the map pointing out of it, also on a      *)
(* rotatable bond.  `azimuth` is the direction of the atom around a nearby *)
(* water's rotation axis.                                                  *)
(***************************************************************************)
ReceptorAtoms ==
    <<[xyz |-> <<0, 0, 0>>,    type |-> "acceptor", nvec |-> 2, azimuth |-> 0],
      [xyz |-> <<0, 20, 0>>,   type |-> "donor",    nvec |-> 1, azimuth |-> 90],
      [xyz |-> <<40, -20, 0>>, type |-> "acceptor", nvec |-> 1, azimuth |-> 240]>>

\* receptor.rotatable_bonds: the atoms of the match, the point of the axis
\* (receptor.coordinates(match[2])) and the torsion angle of the bond.
\* Atom 1 is on no rotatable bond.
Receptors ==
    {[bonds |-> <<[match |-> <<2>>, axis |-> <<0, 10, 0>>, torsion |-> 60],
                  [match |-> <<3>>, axis |-> <<20, -20, 0>>, torsion |-> -120]>>]}

\* Spherical candidate waters as the water box hands them to optimize
NewWater(xyz, atom, a1) ==
    [xyz |-> xyz, anchor |-> <<ReceptorAtoms[atom].xyz, a1>>,
     anchor_type |-> ReceptorAtoms[atom].type, tip5p |-> FALSE,
     energy |-> {},
     \* bookkeeping: the position energy found by the loop of optimize, the
     \* coordinates the position search started from and the number of grid
     \* points that survived its filters
     scored |-> {}, from |-> xyz, size |-> 0,
     \* bookkeeping of the rotations applied so far, in degrees
     turn |-> 0, anchor_turn |-> 0, d_offset |-> 0,
     orient |-> 0, o_offset |-> 0, o_by |-> "none"]

WaterChoices ==
    {<<1, NewWater(<<30, 0, 0>>, 1, <<-10, 0, 0>>)>>,
     <<2, NewWater(<<0, 40, 0>>, 2, <<0, 10, 0>>)>>,
     <<3, NewWater(<<40, -10, 0>>, 3, <<30, -20, 0>>)>>,
     <<3, NewWater(<<70, -20, 0>>, 3, <<30, -20, 0>>)>>}

Maps ==
    {[well |-> <<30, 10, 0>>, wall |-> <<-30, -30, 0>>],
     [well |-> <<-10, 40, 0>>, wall |-> <<30, 0, 0>>]}

Rotations == {90, 180, 360}

Cutoffs == {0, -2}

MaxOptWaters == 2

\* line 110 without the "- 1": the start angle is sampled a second time
n_rotation_full(rot) == 360 \div rot

\* Number of rotation necessary to do a full spin
n_rotation(rot) == (360 \div rot) - 1

\* np.argmin over a sequence indexed from 0: first index of the minimum
ArgMinFirst(e, n) ==
    Min({k \in 0..n : \A j \in 0..n : e[k] <= e[j]})

(***************************************************************************)
(* _optimize_position                                                      *)
(***************************************************************************)
min_radius(w) == IF w.anchor_type = "donor" THEN 25 - 10 ELSE 25

max_radius(w) == IF w.anchor_type = "donor" THEN _distance - 10 ELSE _distance

\* coord_sphere without the angle filter
coord_sphere_unfiltered(w) ==
    neighbor_points(w.anchor[1], min_radius(w), max_radius(w))

\* coord_sphere after the angle filter
coord_sphere(w) ==
    {p \in neighbor_points(w.anchor[1], min_radius(w), max_radius(w)) :
        AngleAtLeast(p, w.anchor[1], w.anchor[2], _angle)}

\* the points `i` may designate: argmin under 'best' (ties are broken by
\* the enumeration order of the grid), any point under 'boltzmann'
PositionChoices(sphere, m, policy) ==
    IF policy = "best"
    THEN LET lowest == Min({MapEnergy(m, q) : q \in sphere})
         IN  {p \in sphere : MapEnergy(m, p) = lowest}
    ELSE sphere

\* _optimize_position whose fallback scores nothing
_optimize_position_no_fallback(w, m, policy) ==
    LET sphere == coord_sphere(w)
    IN  IF sphere # {}
        THEN {[water |-> [w EXCEPT !.xyz = p], energy |-> MapEnergy(m, p),
               size |-> Cardinality(sphere)] :
                 p \in PositionChoices(sphere, m, policy)}
        ELSE {[water |-> w, energy |-> 0, size |-> 0]}

\* possible (water, returned energy) results of _optimize_position, with
\* energy_sphere.size
_optimize_position(w, m, policy) ==
    LET sphere == coord_sphere(w)
    IN  IF sphere # {}
        THEN {[water |-> [w EXCEPT !.xyz = p], energy |-> MapEnergy(m, p),
               size |-> Cardinality(sphere)] :
                 p \in PositionChoices(sphere, m, policy)}
        ELSE {[water |-> w, energy |-> MapEnergy(m, w.xyz), size |-> 0]}

(***************************************************************************)
(* _energy_pairwise and _optimize_orientation                              *)
(***************************************************************************)
RECURSIVE SumSeq(_)
SumSeq(q) == IF q = <<>> THEN 0 ELSE Head(q) + SumSeq(Tail(q))

RECURSIVE Concat(_)
Concat(qq) == IF qq = <<>> THEN <<>> ELSE Head(qq) \o Concat(Tail(qq))

OnRotatableBond(rec, atom) ==
    \E b \in DOMAIN rec.bonds :
        \E k \in DOMAIN rec.bonds[b].match : rec.bonds[b].match[k] = atom

\* rows of anchors_xyz and vectors_xyz of lines 245-284, as the atom of
\* each row: one row per vector of every hydrogen bond anchor within 3.4 A
\* of the oxygen, a single one on a rotatable bond; closest_atoms hands the
\* atoms in the order of their index
ClosestAnchors(w, rec) ==
    Concat([a \in DOMAIN ReceptorAtoms |->
              IF Dist2(ReceptorAtoms[a].xyz, w.xyz) <= Sq(closest_distance)
              THEN [v \in 1..(IF OnRotatableBond(rec, a) THEN 1
                              ELSE ReceptorAtoms[a].nvec) |-> a]
              ELSE <<>>])

\* anchors_types of lines 263-281: [anchor_type] * v.shape[0] per anchor.
\* On a rotatable bond v is water_xyz[0], of shape (3,): the anchor gives
\* one row and three entries of anchors_types.
anchors_types(w, rec) ==
    Concat([a \in DOMAIN ReceptorAtoms |->
              IF Dist2(ReceptorAtoms[a].xyz, w.xyz) <= Sq(closest_distance)
              THEN [v \in 1..(IF OnRotatableBond(rec, a) THEN 3
                              ELSE ReceptorAtoms[a].nvec) |->
                      ReceptorAtoms[a].type]
              ELSE <<>>])

ref_id(w) == IF w.anchor_type = "donor" THEN 3 ELSE 1

\* lines 84-89: the two hydrogens are donors, the other sites acceptors
water_type(site) == IF site - 1 <= 1 THEN "donor" ELSE "acceptor"

\* score_a * score_d of one site against one anchor, by the direction of
\* the site around the rotation axis; the reference site lies on the axis
PairScore(site, atom, theta, ref) ==
    IF site = ref THEN -1
    ELSE LET rank == (site - 1) - (IF ref < site THEN 1 ELSE 0)
             phase == (theta + 120 * rank + 360 - ReceptorAtoms[atom].azimuth) % 360
             delta == IF phase <= 180 THEN phase ELSE 360 - phase
         IN  IF delta = 0 THEN -2 ELSE IF delta < 90 THEN -1 ELSE 0

\* lines 80-102; the zip of line 91 pairs row k with entry k of
\* anchors_types and stops at the last row
_energy_pairwise(theta, ref, anchors, types) ==
    SumSeq([site \in 1..4 |->
              SumSeq([k \in DOMAIN anchors |->
                        IF k <= Len(types) /\ water_type(site) # types[k]
                        THEN PairScore(site, anchors[k], theta, ref)
                        ELSE 0])])

\* line 310 written as a replay of the selected angle
best_angle_replay(current_angle, angle_i) == angle_i

\* lines 171 and 310: the single corrective rotation
best_angle(current_angle, angle_i) == (360 - current_angle) + angle_i

\* The policy test of line 305 compares with ' boltzmann', so under any
\* policy but 'best' `i` keeps the last value of the loop variable of line
\* 294.  When that loop did not run, `i` is what the list comprehension of
\* line 265 left in it (Python 2): the last key of rotatable_bonds, a tuple,
\* and angles[i] of line 310 raises TypeError; with no rotatable bond `i` is
\* unbound.
_optimize_orientation(w, rec, rot, policy) ==
    LET anchors == ClosestAnchors(w, rec)
        types == anchors_types(w, rec)
        n == n_rotation(rot)
        energies == [k \in 0..n |->
                       _energy_pairwise(w.orient + k * rot, ref_id(w),
                                        anchors, types)]
        current_angle == n * rot
        i == IF policy = "best" THEN ArgMinFirst(energies, n) ELSE n - 1
    IN  IF anchors = <<>>
        THEN [status |-> "ValueError", water |-> w, energy |-> 0]
        ELSE IF policy # "best" /\ n = 0
        THEN [status |-> IF rec.bonds # <<>> THEN "TypeError"
                         ELSE "UnboundLocalError",
              water |-> w, energy |-> 0]
        ELSE [status |-> "ok",
              water |-> [w EXCEPT
                  !.orient = @ + n * rot + best_angle(current_angle, i * rot),
                  !.o_offset = i * rot,
                  !.o_by = IF policy = "best" THEN "argmin" ELSE "loop variable"],
              energy |-> energies[i]]

(***************************************************************************)
(* optimize                                                                *)
(***************************************************************************)
ShellUnused ==
    /\ shell_xyz = <<>>
    /\ shell_energy = <<>>
    /\ shell_xray = <<>>
    /\ box_active = <<>>
    /\ active_before = <<>>
    /\ df_active = <<>>
    /\ groups = <<>>
    /\ pool = {}
    /\ to_activate = {}
    /\ activated = {}
    /\ act_pc = "unused"

\* The water box gives one connection row per water, in the order of the
\* waters: the anchor atom of the water and the index of the water.  No two
\* candidate waters of a shell stand at the same place on the same anchor.
InitOptimize ==
    /\ how \in {"best", "boltzmann"}
    /\ rotation \in Rotations
    /\ energy_cutoff \in Cutoffs
    /\ opt_flags \in [position : BOOLEAN, rotation : BOOLEAN, disordered : BOOLEAN]
    /\ ad_map \in Maps
    /\ receptor \in Receptors
    /\ \E picks \in SeqsUpTo(WaterChoices, MaxOptWaters) :
          /\ \A j, k \in DOMAIN picks : j # k => picks[j] # picks[k]
          /\ waters = [k \in DOMAIN picks |-> picks[k][2]]
          /\ connections \in
                {[none |-> TRUE, rows |-> <<>>],
                 [none |-> FALSE,
                  rows |-> [k \in DOMAIN picks |->
                              [atom_i |-> picks[k][1], molecule_j |-> k]]]}
    /\ opt_pc = "call"
    /\ opt_i = 0
    /\ data = <<>>
    /\ to_be_removed = <<>>
    /\ disordered_energies = <<>>
    /\ searched = <<>>
    /\ ret_waters = <<>>
    /\ ret_connections = [none |-> TRUE, rows |-> <<>>]
    /\ sweeps = <<>>
    /\ ShellUnused
    /\ ForceFieldUnused
    /\ SmoothUnused

\* lines 317-328
OptimizeEnter ==
    /\ opt_pc = "call"
    /\ opt_pc' = IF opt_flags.disordered /\ ~connections.none
                 THEN "disordered" ELSE "loop"
    /\ opt_i' = 1
    /\ UNCHANGED <<rotation, energy_cutoff, opt_flags, ad_map, receptor, waters,
                   connections, data, to_be_removed, disordered_energies,
                   searched, ret_waters, ret_connections,
                   sweeps>>
    /\ UNCHANGED <<shellVars, ffVars, smVars>>

\* lines 119-124: the waters attached to the atoms of the match
rot_waters(bond, rows) ==
    Concat([a \in DOMAIN bond.match |->
              LET hit == SelectSeq(rows, LAMBDA r : r.atom_i = bond.match[a])
              IN  [k \in DOMAIN hit |-> hit[k].molecule_j]])

Occurrences(q, x) == Cardinality({k \in DOMAIN q : q[k] = x})

\* lines 126 and 156: the map energy of each attached water, the waters
\* having been rotated `step` times
energy_waters(rw, ws, m, axis, rot, step) ==
    [k \in DOMAIN rw |->
        MapEnergy(m, rotate_point(ws[rw[k]].xyz, axis,
                                  step * Occurrences(rw, rw[k]) * rot))]

\* lines 126-129 and 156-158 without the clipping of line 127 and 157
GroupEnergy_unclipped(rw, ws, m, axis, rot, step) ==
    SumSeq(energy_waters(rw, ws, m, axis, rot, step))

\* lines 126-129 and 156-158: sum of the energies clipped at zero, the
\* waters having been rotated `step` times
GroupEnergy(rw, ws, m, axis, rot, step) ==
    SumSeq([k \in DOMAIN rw |->
              LET e == MapEnergy(m, rotate_point(ws[rw[k]].xyz, axis,
                                     step * Occurrences(rw, rw[k]) * rot))
              IN  IF e > 0 THEN 0 ELSE e])

\* lines 114-180: one rotatable bond
DisorderedBond ==
    /\ opt_pc = "disordered"
    /\ opt_i <= Len(receptor.bonds)
    /\ LET bond == receptor.bonds[opt_i]
           rw == rot_waters(bond, connections.rows)
           n == n_rotation(rotation)
           energies == [k \in 0..n |->
                          GroupEnergy(rw, waters, ad_map, bond.axis, rotation, k)]
           angles == [k \in 0..n |-> bond.torsion + k * rotation]
           current_angle == angles[n]
       IN  \E i \in (IF how = "best" THEN {ArgMinFirst(energies, n)} ELSE 0..n) :
              LET ba == best_angle(current_angle, angles[i])
              IN  /\ waters' = [w \in DOMAIN waters |->
                        LET c == Occurrences(rw, w)
                        IN  IF c = 0 THEN waters[w]
                            ELSE [waters[w] EXCEPT
                               !.xyz = rotate_point(@, bond.axis,
                                           c * (n * rotation + ba)),
                               !.anchor = <<rotate_point(@[1], bond.axis, c * ba),
                                            rotate_point(@[2], bond.axis, c * ba)>>,
                               !.turn = @ + c * (n * rotation + ba),
                               !.anchor_turn = @ + c * ba,
                               !.d_offset = @ + (angles[i] - angles[0])]]
                  /\ disordered_energies' = Append(disordered_energies, energies[i])
                  /\ sweeps' = Append(sweeps,
                        [bond |-> opt_i,
                         rot_waters |-> rw,
                         offsets |-> [k \in 1..(n + 1) |->
                                        angles[k - 1] - angles[0]],
                         energy_waters |-> [k \in 1..(n + 1) |->
                                        energy_waters(rw, waters, ad_map,
                                            bond.axis, rotation, k - 1)],
                         energies |-> [k \in 1..(n + 1) |-> energies[k - 1]]])
    /\ opt_i' = opt_i + 1
    /\ UNCHANGED <<rotation, energy_cutoff, opt_flags, ad_map, receptor,
                   connections, opt_pc, data, to_be_removed, searched,
                   ret_waters, ret_connections>>
    /\ UNCHANGED <<shellVars, ffVars, smVars>>

\* line 182, back in optimize
DisorderedReturn ==
    /\ opt_pc = "disordered"
    /\ opt_i > Len(receptor.bonds)
    /\ opt_pc' = "loop"
    /\ opt_i' = 1
    /\ UNCHANGED <<rotation, energy_cutoff, opt_flags, ad_map, receptor, waters,
                   connections, data, to_be_removed, disordered_energies,
                   searched, ret_waters, ret_connections,
                   sweeps>>
    /\ UNCHANGED <<shellVars, ffVars, smVars>>

\* line 333 visiting the list from its end
enumerate_reversed(ws) == [k \in DOMAIN ws |-> Len(ws) + 1 - k]

\* line 333: enumerate(waters)
enumerate(ws) == [k \in DOMAIN ws |-> k]

\* line 342 without the test: every scored water goes further
accepted_always(energy_position, cutoff) == TRUE

\* line 342 with a strict comparison
accepted_strict(energy_position, cutoff) == energy_position < cutoff

\* line 342: Before going further we check the energy
accepted(energy_position, cutoff) == energy_position <= cutoff

\* lines 333-359: one water of the loop
OptimizeWater ==
    /\ opt_pc = "loop"
    /\ opt_i <= Len(waters)
    /\ LET i == enumerate(waters)[opt_i]
           w == waters[i]
       IN  IF ~is_in_map(w.xyz)
           THEN /\ to_be_removed' = Append(to_be_removed, i)
                /\ UNCHANGED <<waters, data, searched, opt_pc>>
           ELSE \E pos \in (IF opt_flags.position
                            THEN _optimize_position(w, ad_map, how)
                            ELSE {[water |-> w, energy |-> MapEnergy(ad_map, w.xyz),
                                   size |-> 0]}) :
                  LET moved == [pos.water EXCEPT !.scored = {pos.energy},
                                                 !.from = w.xyz,
                                                 !.size = pos.size]
                  IN
                  /\ searched' = IF opt_flags.position
                                 THEN Append(searched, i) ELSE searched
                  /\ IF accepted(pos.energy, energy_cutoff)
                     THEN LET built == [moved EXCEPT !.tip5p = TRUE]
                              ori == IF opt_flags.rotation
                                     THEN _optimize_orientation(built, receptor,
                                                                rotation, how)
                                     ELSE [status |-> "ok", water |-> built,
                                           energy |-> 0]
                          IN  IF ori.status = "ok"
                              THEN /\ waters' = [waters EXCEPT ![i] =
                                        [ori.water EXCEPT !.energy = {pos.energy}]]
                                   /\ data' = Append(data,
                                        [water |-> i,
                                         energy_position |-> pos.energy,
                                         energy_orientation |->
                                            IF opt_flags.rotation
                                            THEN {ori.energy} ELSE {}])
                                   /\ UNCHANGED <<to_be_removed, opt_pc>>
                              ELSE /\ waters' = [waters EXCEPT ![i] = ori.water]
                                   /\ opt_pc' = ori.status
                                   /\ UNCHANGED <<data, to_be_removed>>
                     ELSE /\ waters' = [waters EXCEPT ![i] = moved]
                          /\ to_be_removed' = Append(to_be_removed, i)
                          /\ UNCHANGED <<data, opt_pc>>
    /\ opt_i' = opt_i + 1
    /\ UNCHANGED <<rotation, energy_cutoff, opt_flags, ad_map, receptor,
                   connections, disordered_energies, ret_waters, ret_connections,
                   sweeps>>
    /\ UNCHANGED <<shellVars, ffVars, smVars>>

InSeq(q, x) == \E k \in DOMAIN q : q[k] = x

\* lines 361-376: keep the good waters, drop and renumber the connections.
\* The rows are dropped and renumbered in the table of the caller, which is
\* also the table returned.  Line 368 assigns a list of len(waters) values
\* to the column: on a table left without rows pandas takes the index of the
\* list, giving len(waters) rows whose atom_i is NaN; on a table with rows
\* a list of another length raises ValueError, the rows of the removed
\* waters being already dropped, and nothing is returned.
OptimizeReturn ==
    /\ opt_pc = "loop"
    /\ opt_i > Len(waters)
    /\ LET kept == SelectSeq([k \in DOMAIN waters |-> k],
                             LAMBDA k : ~InSeq(to_be_removed, k))
           rows == SelectSeq(connections.rows,
                             LAMBDA r : ~InSeq(to_be_removed, r.molecule_j))
           renumbered ==
              [none |-> FALSE,
               rows |-> IF rows = <<>>
                        THEN [k \in DOMAIN kept |->
                                [atom_i |-> "NaN", molecule_j |-> k]]
                        ELSE [k \in DOMAIN rows |->
                                [rows[k] EXCEPT !.molecule_j = k]]]
       IN  IF connections.none
           THEN /\ ret_waters' = kept
                /\ ret_connections' = [none |-> TRUE, rows |-> <<>>]
                /\ opt_pc' = "returned"
                /\ UNCHANGED connections
           ELSE IF rows # <<>> /\ Len(rows) # Len(kept)
           THEN /\ connections' = [none |-> FALSE, rows |-> rows]
                /\ opt_pc' = "ValueError"
                /\ UNCHANGED <<ret_waters, ret_connections>>
           ELSE /\ ret_waters' = kept
                /\ connections' = renumbered
                /\ ret_connections' = renumbered
                /\ opt_pc' = "returned"
    /\ UNCHANGED <<rotation, energy_cutoff, opt_flags, ad_map, receptor, waters,
                   opt_i, data, to_be_removed, disordered_energies,
                   searched, sweeps>>
    /\ UNCHANGED <<shellVars, ffVars, smVars>>

NextOptimize ==
    \/ OptimizeEnter
    \/ DisorderedBond
    \/ DisorderedReturn
    \/ OptimizeWater
    \/ OptimizeReturn

SpecOptimize == InitOptimize /\ [][NextOptimize]_vars

\* optimize is a public method: `connections` is whatever table the caller
\* passes (line 315).  Here the rows name waters of the list in any order,
\* a water having no row, one row or several; each row carries the anchor
\* atom of its water.
InitConnections ==
    /\ how = "best"
    /\ rotation = 180
    /\ energy_cutoff \in Cutoffs
    /\ opt_flags \in [position : {TRUE}, rotation : {FALSE}, disordered : BOOLEAN]
    /\ ad_map \in Maps
    /\ receptor \in Receptors
    /\ \E picks \in SeqsUpTo(WaterChoices, MaxOptWaters) :
          /\ \A j, k \in DOMAIN picks : j # k => picks[j] # picks[k]
          /\ waters = [k \in DOMAIN picks |-> picks[k][2]]
          /\ \E js \in SeqsUpTo(DOMAIN picks, MaxOptWaters) :
                connections =
                   [none |-> FALSE,
                    rows |-> [k \in DOMAIN js |->
                                [atom_i |-> picks[js[k]][1], molecule_j |-> js[k]]]]
    /\ opt_pc = "call"
    /\ opt_i = 0
    /\ data = <<>>
    /\ to_be_removed = <<>>
    /\ disordered_energies = <<>>
    /\ searched = <<>>
    /\ ret_waters = <<>>
    /\ ret_connections = [none |-> TRUE, rows |-> <<>>]
    /\ sweeps = <<>>
    /\ ShellUnused
    /\ ForceFieldUnused
    /\ SmoothUnused

SpecConnections == InitConnections /\ [][NextOptimize]_vars

(***************************************************************************)
(* Force field (src/waterkit/forcefield.py) and the smoothing of the       *)
(* optimizer.  In this part lengths are integers in eighths of an          *)
(* angstrom, so that the half-width of the smoothing window, 0.25 A, is    *)
(* the integer 2.                                                          *)
(***************************************************************************)
\* self.smooth = 0.5 A
smooth == 4

\* largest distance and longest array given to the smoothing
MaxDistance == 12

MaxArray == 2

\* equilibrium distances given to the smoothing
Reqms == {2, 3, 4}

\* smooth_distance that shifts every distance before it snaps the window
smooth_distance_shift_first(r, reqm, sm) ==
    LET sf == sm \div 2
        r1 == [k \in DOMAIN r |->
                 IF r[k] >= reqm + sf THEN r[k] - sf ELSE r[k]]
        r2 == [k \in DOMAIN r1 |->
                 IF r1[k] <= reqm - sf THEN r1[k] + sf ELSE r1[k]]
    IN  [k \in DOMAIN r2 |->
           IF (reqm - sf) < r2[k] /\ r2[k] < (reqm + sf) THEN reqm ELSE r2[k]]

\* smooth_distance that leaves the distances outside the window as they are
smooth_distance_no_shift(r, reqm, sm) ==
    LET sf == sm \div 2
    IN  [k \in DOMAIN r |->
           IF (reqm - sf) < r[k] /\ r[k] < (reqm + sf) THEN reqm ELSE r[k]]

\* AutoDockForceField.smooth_distance: three masked assignments made one
\* after the other on a copy of the array r
smooth_distance(r, reqm, sm) ==
    LET sf == sm \div 2
        r1 == [k \in DOMAIN r |->
                 IF (reqm - sf) < r[k] /\ r[k] < (reqm + sf) THEN reqm ELSE r[k]]
        r2 == [k \in DOMAIN r1 |->
                 IF r1[k] >= reqm + sf THEN r1[k] - sf ELSE r1[k]]
    IN  [k \in DOMAIN r2 |->
           IF r2[k] <= reqm - sf THEN r2[k] + sf ELSE r2[k]]

\* WaterOptimizer._smooth_distance: one scalar, smooth = 0.5 A set locally
_smooth_distance(r, rij) ==
    LET smooth_local == 4
    IN  IF rij - smooth_local \div 2 < r /\ r < rij + smooth_local \div 2
        THEN rij
        ELSE IF r >= rij + smooth_local \div 2
        THEN r - smooth_local \div 2
        ELSE r + smooth_local \div 2

InitSmooth ==
    /\ \E n \in 1..MaxArray : sm_r \in [1..n -> 0..MaxDistance]
    /\ sm_reqm \in Reqms
    /\ sm_vector = <<>>
    /\ sm_scalar = <<>>
    /\ sm_twice = <<>>
    /\ sm_pc = "call"
    /\ how = "best"
    /\ ShellUnused
    /\ OptimizeUnused
    /\ ForceFieldUnused

\* the force field smooths the array
SmoothVector ==
    /\ sm_pc = "call"
    /\ sm_vector' = smooth_distance(sm_r, sm_reqm, smooth)
    /\ sm_pc' = "vector"
    /\ UNCHANGED <<sm_r, sm_reqm, sm_scalar, sm_twice>>
    /\ UNCHANGED <<shellVars, optVars, ffVars>>

\* the optimizer smooths each distance of the array
SmoothScalar ==
    /\ sm_pc = "vector"
    /\ sm_scalar' = [k \in DOMAIN sm_r |-> _smooth_distance(sm_r[k], sm_reqm)]
    /\ sm_pc' = "scalar"
    /\ UNCHANGED <<sm_r, sm_reqm, sm_vector, sm_twice>>
    /\ UNCHANGED <<shellVars, optVars, ffVars>>

\* both results are smoothed once more
SmoothAgain ==
    /\ sm_pc = "scalar"
    /\ sm_twice' = [vector |-> smooth_distance(sm_vector, sm_reqm, smooth),
                    scalar |-> [k \in DOMAIN sm_scalar |->
                                  _smooth_distance(sm_scalar[k], sm_reqm)]]
    /\ sm_pc' = "twice"
    /\ UNCHANGED <<sm_r, sm_reqm, sm_vector, sm_scalar>>
    /\ UNCHANGED <<shellVars, optVars, ffVars>>

NextSmooth ==
    \/ SmoothVector
    \/ SmoothScalar
    \/ SmoothAgain

SpecSmooth == InitSmooth /\ [][NextSmooth]_vars

(***************************************************************************)
(* AutoDockForceField: parameters and pairwise table                       *)
(***************************************************************************)
Abs(x) == IF x < 0 THEN -x ELSE x

RECURSIVE Pow(_, _)
Pow(x, n) == IF n = 0 THEN 1 ELSE x * Pow(x, n - 1)

\* np.sqrt, on the perfect squares the parameters below give
Sqrt(n) == CHOOSE k \in 0..n : k * k = n

\* The atom_par records of a parameter file, by atom type: rii and rij_hb
\* in eighths of an angstrom, epsii and epsij_hb in units of energy, solpar
\* in 1e-5, hbond the hydrogen-bond class (0 none, 1-2 donor, 3-5 acceptor)
ParameterFiles ==
    {[HD |-> [rii |-> 2, epsii |-> 1, vol |-> 1, solpar |-> 50,
              rij_hb |-> 0, epsij_hb |-> 0, hbond |-> 1],
      OA |-> [rii |-> 4, epsii |-> 4, vol |-> 3, solpar |-> -110,
              rij_hb |-> 2, epsij_hb |-> 5, hbond |-> 5],
      C  |-> [rii |-> 4, epsii |-> 1, vol |-> 3, solpar |-> -140,
              rij_hb |-> 0, epsij_hb |-> 0, hbond |-> 0]],
     [HD |-> [rii |-> 2, epsii |-> 4, vol |-> 1, solpar |-> 50,
              rij_hb |-> 3, epsij_hb |-> 1, hbond |-> 2],
      OA |-> [rii |-> 4, epsii |-> 1, vol |-> 3, solpar |-> -110,
              rij_hb |-> 2, epsij_hb |-> 5, hbond |-> 3],
      NA |-> [rii |-> 2, epsii |-> 1, vol |-> 2, solpar |-> -160,
              rij_hb |-> 3, epsij_hb |-> 2, hbond |-> 4]]}

\* FE_coeff values of the file: a term is switched off by the weight 0
WeightValues == {0, 2}

\* lines 54-71: the weights read from the file; none, one or all of the
\* four terms switched off
_set_weights ==
    {w \in [hbond : WeightValues, vdW : WeightValues,
            estat : WeightValues, desolv : WeightValues] :
        Cardinality({t \in DOMAIN w : w[t] = 0}) \in {0, 1, 4}}

\* line 110
_coefficient(epsilon, reqm, a, b) ==
    (a \div Abs(a - b)) * epsilon * Pow(reqm, b)

\* the equilibrium distance taken from the first type alone
vdw_rij_first_only(par, i, j) == par[i].rii

\* line 121
vdw_rij(par, i, j) == (par[i].rii + par[j].rii) \div 2

\* line 122
vdw_epsij(par, i, j) == Sqrt(par[i].epsii * par[j].epsii)

\* the hydrogen-bond parameters always taken from the second type
hb_parameters_of_j(par, i, j) ==
    IF par[i].hbond \in {1, 2} /\ par[j].hbond \in {3, 4, 5}
    THEN [rij |-> par[j].rij_hb, epsij |-> par[j].epsij_hb]
    ELSE IF par[i].hbond \in {3, 4, 5} /\ par[j].hbond \in {1, 2}
    THEN [rij |-> par[j].rij_hb, epsij |-> par[j].epsij_hb]
    ELSE [rij |-> 0, epsij |-> 0]

\* lines 127-138
hb_parameters(par, i, j) ==
    IF par[i].hbond \in {1, 2} /\ par[j].hbond \in {3, 4, 5}
    THEN [rij |-> par[j].rij_hb, epsij |-> par[j].epsij_hb]
    ELSE IF par[i].hbond \in {3, 4, 5} /\ par[j].hbond \in {1, 2}
    THEN [rij |-> par[i].rij_hb, epsij |-> par[i].epsij_hb]
    ELSE [rij |-> 0, epsij |-> 0]

\* lines 112-147: one row for every ordered pair of atom types
_build_pairwise_table(par) ==
    [p \in (DOMAIN par) \X (DOMAIN par) |->
        LET i == p[1]
            j == p[2]
            hb == hb_parameters(par, i, j)
        IN  [vdw_rij |-> vdw_rij(par, i, j),
             vdw_epsij |-> vdw_epsij(par, i, j),
             A |-> _coefficient(vdw_epsij(par, i, j), vdw_rij(par, i, j), 6, 12),
             B |-> _coefficient(vdw_epsij(par, i, j), vdw_rij(par, i, j), 12, 6),
             hb_rij |-> hb.rij,
             hb_epsij |-> hb.epsij,
             C |-> _coefficient(hb.epsij, hb.rij, 10, 12),
             D |-> _coefficient(hb.epsij, hb.rij, 12, 10),
             active |-> TRUE]]

\* lines 27-52: the force field as the constructor leaves it
InitForceField ==
    /\ atom_par \in ParameterFiles
    /\ weights \in _set_weights
    /\ pairwise = _build_pairwise_table(atom_par)
    /\ ff_pc = "built"
    /\ n_deactivate = 0
    /\ pairs = <<>>
    /\ pairwise_before = <<>>
    /\ printed = <<>>
    /\ atoms = <<>>
    /\ ff_energy = <<>>
    /\ how = "best"
    /\ ShellUnused
    /\ OptimizeUnused
    /\ SmoothUnused

(***************************************************************************)
(* deactivate_pairs                                                        *)
(***************************************************************************)
\* number of deactivate_pairs calls made on one force field
MaxDeactivate == 1

\* The lists given to deactivate_pairs: no pair, one pair of types of which
\* either may be the unknown type XX, a list whose element is not a pair,
\* and an unknown pair followed by a known one
PairLists(types) ==
    {<<>>}
    \cup {<<<<a, b>>>> : a \in types \cup {"XX"}, b \in types \cup {"XX"}}
    \cup {<<<<a>>>> : a \in types}
    \cup {<<<<"XX", a>>, <<a, a>>>> : a \in types}

\* the row pandas adds when .loc is assigned a label the index lacks
EnlargedRow ==
    [vdw_rij |-> "NaN", vdw_epsij |-> "NaN", A |-> "NaN", B |-> "NaN",
     hb_rij |-> "NaN", hb_epsij |-> "NaN", C |-> "NaN", D |-> "NaN",
     active |-> FALSE]

\* self.pairwise.loc[(i, j), 'active'] = False.  For a label that is not in
\* the index pandas either raises KeyError or adds a row, depending on its
\* version: both are kept, `enlarge` telling which.
SetInactive(table, i, j, enlarge) ==
    IF <<i, j>> \in DOMAIN table
    THEN [raised |-> FALSE,
          table |-> [table EXCEPT ![<<i, j>>].active = FALSE]]
    ELSE IF enlarge
    THEN [raised |-> FALSE, table |-> (<<i, j>> :> EnlargedRow) @@ table]
    ELSE [raised |-> TRUE, table |-> table]

\* lines 100-102 with only the first of the two assignments
try_pair_one_way(table, pair, enlarge) ==
    SetInactive(table, pair[1], pair[2], enlarge)

\* lines 100-102: the body of the try
try_pair(table, pair, enlarge) ==
    LET first == SetInactive(table, pair[1], pair[2], enlarge)
    IN  IF first.raised THEN first
        ELSE SetInactive(first.table, pair[2], pair[1], enlarge)

\* lines 99-104: the loop over the pairs, the bare except printing a
\* message and going on with the next pair
RECURSIVE deactivate_loop(_, _, _, _)
deactivate_loop(table, out, rest, enlarge) ==
    IF rest = <<>> THEN [table |-> table, printed |-> out]
    ELSE LET t == try_pair(table, Head(rest), enlarge)
         IN  deactivate_loop(t.table,
                 IF t.raised
                 THEN Append(out, <<"Error: pair does not exist.",
                                    Head(rest)[1], Head(rest)[2]>>)
                 ELSE out,
                 Tail(rest), enlarge)

\* lines 96-106
deactivate_pairs(table, arg, enlarge) ==
    IF \A k \in DOMAIN arg : Len(arg[k]) = 2
    THEN deactivate_loop(table, <<>>, arg, enlarge)
    ELSE [table |-> table,
          printed |-> <<<<"Error: pairs argument must be a list of list(2).">>>>]

DeactivatePairs ==
    /\ ff_pc \in {"built", "deactivated"}
    /\ n_deactivate < MaxDeactivate
    /\ \E arg \in PairLists(DOMAIN atom_par), enlarge \in BOOLEAN :
          LET done == deactivate_pairs(pairwise, arg, enlarge)
          IN  /\ pairs' = arg
              /\ pairwise' = done.table
              /\ printed' = done.printed
    /\ pairwise_before' = pairwise
    /\ n_deactivate' = n_deactivate + 1
    /\ ff_pc' = "deactivated"
    /\ atoms' = <<>>
    /\ ff_energy' = <<>>
    /\ UNCHANGED <<atom_par, weights>>
    /\ UNCHANGED <<shellVars, optVars, smVars>>

(***************************************************************************)
(* Energy terms and intermolecular_energy.  The quotients of the code are  *)
(* integer quotients here: van_der_waals, hydrogen_bond_distance and       *)
(* electrostatic give whole units of energy, desolvation gives 1e-5 of a   *)
(* unit, and intermolecular_energy sums them all in 1e-5 of a unit.  The   *)
(* dielectric and the Gaussian of the desolvation are tabulated at the     *)
(* distances the atoms below can have.                                     *)
(***************************************************************************)
\* hb_cutoff = 8 A and elec_cutoff = 20 A, in eighths of an angstrom
hb_cutoff == 64

elec_cutoff == 160

\* 0.01097, in 1e-5
desolvation_k == 1097

\* desolvation_k and the solpar of the parameter files being held in 1e-5,
\* the desolvation comes out in 1e-5 of the energy unit: the four sums of
\* intermolecular_energy are kept in that unit
per_unit == 100000

\* 332.06363 for distances in angstrom, for distances in eighths
elec_scale == 2656

\* lines 184-187, in hundredths, at 1/8 ... 8/8 A
distance_dependent_dielectric(r) ==
    <<170, 206, 243, 282, 321, 362, 404, 447>>[r]

\* exp(-0.5 * r^2 / sigma^2) of line 201 with sigma = 3.6 A, in thousandths
Gaussian(r) == <<999, 998, 995, 990, 985, 979, 971, 962>>[r]

\* lines 159-162
van_der_waals(r, reqm, A, B) ==
    LET rs == smooth_distance(r, reqm, smooth)
    IN  SumSeq([k \in DOMAIN rs |->
                  (A \div Pow(rs[k], 12)) - (B \div Pow(rs[k], 6))])

\* lines 164-170
hydrogen_bond_distance(r, reqm, C, D) ==
    IF r[1] <= hb_cutoff
    THEN LET rs == smooth_distance(r, reqm, smooth)
         IN  SumSeq([k \in DOMAIN rs |->
                       (C \div Pow(rs[k], 12)) - (D \div Pow(rs[k], 10))])
    ELSE 0

\* lines 189-195
electrostatic(r, qi, qj) ==
    IF r[1] <= elec_cutoff
    THEN SumSeq([k \in DOMAIN r |->
                   (elec_scale * qi * qj * 100)
                       \div (r[k] * distance_dependent_dielectric(r[k]))])
    ELSE 0

\* lines 197-202
desolvation(r, qi, qj, ai, aj, vi, vj) ==
    SumSeq([k \in DOMAIN r |->
              (((ai * vj) + (aj * vi) + (desolvation_k * Abs(qi) * vj)
                    + (desolvation_k * Abs(qj) * vi)) * Gaussian(r[k]))
                  \div 1000])

\* utils.get_euclidean_distance of two atoms on the x axis: an array of
\* one distance
get_euclidean_distance(a_i, a_j) == <<Abs(a_i.x - a_j.x)>>

\* a term evaluated whatever its weight
gate_open(w, term) == TRUE

\* lines 225, 245, 248, 251: the test made on the weight of a term
gate(w, term) == w[term] > 0

\* lines 218-256: what one pair of atoms adds to the four sums, the terms
\* whose function was called, and whether line 237 raised.  With hydrogen
\* bond vectors given, line 235 iterates over (index, row) tuples and line
\* 237 indexes the tuple with a string: TypeError as soon as both atoms
\* have a vector; with no vector on either atom the pair adds the sum of
\* an empty array.
pair_terms(par, w, table, hbs, a_i, a_j) ==
    LET e == table[<<a_i.atom_type, a_j.atom_type>>]
        r == get_euclidean_distance(a_i, a_j)
        hb_on == e.active /\ gate(w, "hbond") /\ e.hb_rij > 0
        raised == hb_on /\ hbs /\ a_i.nvec > 0 /\ a_j.nvec > 0
        on(term) == e.active /\ ~raised /\ gate(w, term)
    IN  [i |-> a_i.atom_type, j |-> a_j.atom_type,
         raised |-> raised,
         hb |-> IF hb_on /\ ~hbs
                THEN hydrogen_bond_distance(r, e.hb_rij, e.C, e.D) * per_unit
                ELSE 0,
         vdw |-> IF on("vdW")
                 THEN van_der_waals(r, e.vdw_rij, e.A, e.B) * per_unit ELSE 0,
         elec |-> IF on("estat")
                  THEN electrostatic(r, a_i.atom_q, a_j.atom_q) * per_unit
                  ELSE 0,
         desolv |-> IF on("desolv")
                    THEN desolvation(r, a_i.atom_q, a_j.atom_q,
                                     par[a_i.atom_type].solpar,
                                     par[a_j.atom_type].solpar,
                                     par[a_i.atom_type].vol,
                                     par[a_j.atom_type].vol)
                    ELSE 0,
         evaluated |-> {t \in {"hbond"} : hb_on}
                       \cup {t \in {"vdW", "estat", "desolv"} : on(t)}]

\* lines 212-217: the pairs in the order of the two loops, up to the pair
\* that raises
RECURSIVE pair_loop(_, _, _, _, _, _, _)
pair_loop(par, w, table, call, k, n, done) ==
    IF k > n THEN done
    ELSE LET m == Len(call.atoms_j)
             t == pair_terms(par, w, table, call.hbs,
                             call.atoms_i[((k - 1) \div m) + 1],
                             call.atoms_j[((k - 1) % m) + 1])
         IN  IF t.raised THEN Append(done, t)
             ELSE pair_loop(par, w, table, call, k + 1, n, Append(done, t))

\* lines 204-267, with details=True; total and its four components in 1e-5
\* of the energy unit
intermolecular_energy(par, w, table, call) ==
    LET terms == pair_loop(par, w, table, call, 1,
                           Len(call.atoms_i) * Len(call.atoms_j), <<>>)
        hb == SumSeq([k \in DOMAIN terms |-> terms[k].hb]) * w.hbond
        elec == SumSeq([k \in DOMAIN terms |-> terms[k].elec]) * w.estat
        vdw == SumSeq([k \in DOMAIN terms |-> terms[k].vdw]) * w.vdW
        desolv == SumSeq([k \in DOMAIN terms |-> terms[k].desolv]) * w.desolv
    IN  IF \E k \in DOMAIN terms : terms[k].raised
        THEN [status |-> "TypeError", terms |-> terms]
        ELSE [status |-> "energy", terms |-> terms,
              total |-> hb + vdw + elec + desolv,
              hb |-> hb, vdw |-> vdw, elec |-> elec, desolv |-> desolv]

\* The atoms given to intermolecular_energy: one atom i at the origin and
\* one or two atoms j at 3/8 and 7/8 A from it, of any known type; hbs
\* tells whether the hydrogen-bond vectors are given, the first atom j
\* having one and the second none
Calls(types) ==
    LET atom_i(t) == [atom_type |-> t, x |-> 0, atom_q |-> 1, nvec |-> 1]
        atom_j(t, k) == [atom_type |-> t, x |-> IF k = 1 THEN 3 ELSE 7,
                         atom_q |-> -1, nvec |-> IF k = 1 THEN 1 ELSE 0]
    IN  [atoms_i : {<<atom_i(t)>> : t \in types},
         atoms_j : {<<atom_j(t, 1)>> : t \in types}
                   \cup {<<atom_j(t, 1), atom_j(u, 2)>> : t \in types, u \in types}
                   \cup {<<atom_j(t, 2)>> : t \in types},
         hbs : BOOLEAN]

\* The call reads the force field and changes nothing of it: what can follow
\* it is what can follow the state it was made in, so the calls are made
\* from the states the constructor and deactivate_pairs leave.
IntermolecularEnergy ==
    /\ ff_pc \in {"built", "deactivated"}
    /\ \E call \in Calls(DOMAIN atom_par) :
          LET result == intermolecular_energy(atom_par, weights, pairwise, call)
          IN  /\ atoms' = call
              /\ ff_energy' = result
              /\ ff_pc' = result.status
    /\ pairs' = <<>>
    /\ pairwise_before' = <<>>
    /\ printed' = <<>>
    /\ UNCHANGED <<atom_par, weights, pairwise, n_deactivate>>
    /\ UNCHANGED <<shellVars, optVars, smVars>>

NextForceField ==
    \/ DeactivatePairs
    \/ IntermolecularEnergy

SpecForceField == InitForceField /\ [][NextForceField]_vars

(***************************************************************************)
(* Properties of activate_molecules_in_shell                               *)
(***************************************************************************)
Waters == DOMAIN shell_xyz

Clash(i, j) == i # j /\ Dist2(shell_xyz[i], shell_xyz[j]) < Sq(minimal_distance)

Returned == act_pc = "done"

FreshCall == \A k \in Waters : ~active_before[k]

\* C1: after a call under 'best' or 'boltzmann' that began with every water
\* of the shell inactive, two active waters closer than 2.5 A are both
\* xray-flagged.
C1_NoClashAmongActive ==
    (Returned /\ how \in {"best", "boltzmann"} /\ FreshCall) =>
        \A i, j \in Waters :
            (box_active[i] /\ box_active[j] /\ Clash(i, j)) =>
                (shell_xray[i] /\ shell_xray[j])

\* a fresh call returned with two active waters and dropped a non-xray
\* water that clashes with an active one
C1_Witness ==
    /\ Returned /\ FreshCall
    /\ \E i, j, k \in Waters :
          /\ i # j /\ box_active[i] /\ box_active[j]
          /\ ~shell_xray[i] /\ ~shell_xray[k]
          /\ Clash(i, k) /\ ~box_active[k]

\* C2: after the call every xray-flagged water is active and every non-xray
\* water closer than 2.5 A to an xray-flagged water is inactive, whatever
\* the energies.
C2_XrayKept ==
    Returned =>
        \A i \in Waters :
            shell_xray[i] =>
                /\ box_active[i]
                /\ \A j \in Waters :
                      (~shell_xray[j] /\ Clash(i, j)) => ~box_active[j]

\* an xray water won against a clashing non-xray water of lower energy
C2_Witness ==
    /\ Returned
    /\ \E i, j \in Waters :
          /\ shell_xray[i] /\ ~shell_xray[j] /\ Clash(i, j)
          /\ shell_energy[j] < shell_energy[i]
          /\ box_active[i] /\ ~box_active[j]

\* C3: after a call under 'best' or 'boltzmann' every water is activated or
\* lies closer than 2.5 A to an activated water of its cluster; waters that
\* do not clash with any activated water are active.
C3_ActivatedOrClashing ==
    (Returned /\ how \in {"best", "boltzmann"}) =>
        \A k \in Waters :
            \/ k \in activated /\ box_active[k]
            \/ \E b \in activated :
                  /\ Clash(b, k)
                  /\ b \in Reach({k}, shell_xyz, cluster_distance)

\* two waters of one cluster that do not clash (exactly 2.5 A apart) are
\* both activated, or a single-water shell has its water activated
C3_Witness ==
    /\ Returned
    /\ \/ \E i, j \in Waters :
             /\ i # j /\ ~Clash(i, j)
             /\ j \in Reach({i}, shell_xyz, cluster_distance)
             /\ i \in activated /\ j \in activated
             /\ \E k \in Waters : k \notin activated
       \/ Len(shell_xyz) = 1 /\ activated = {1}

\* C4: with the 'all' policy the call completes normally and every water of
\* the shell is active.
C4_AllPolicyActivatesAll ==
    (how = "all" /\ act_pc # "call") =>
        (Returned /\ \A k \in Waters : box_active[k])


(***************************************************************************)
(* Properties of optimize and of its searches                              *)
(***************************************************************************)
OptReturned == opt_pc = "returned"

IsIncreasing(q) == \A a, b \in DOMAIN q : a < b => q[a] < q[b]

\* the input waters the loop found inside the map with a position energy
\* not above the cutoff, in input order
GoodWaters ==
    SelectSeq([k \in DOMAIN waters |-> k],
              LAMBDA k : /\ is_in_map(waters[k].xyz)
                         /\ \E e \in waters[k].scored : e <= energy_cutoff)

\* C5: optimize returns exactly the input waters that are inside the map
\* when the loop tests them and whose position energy is <= energy_cutoff,
\* in input order; the shell table has one row per returned water, in the
\* same order, every row with energy_position <= energy_cutoff.
C5_ReturnsGoodWaters ==
    OptReturned =>
        /\ ret_waters = GoodWaters
        /\ Len(data) = Len(ret_waters)
        /\ \A k \in DOMAIN data :
              /\ data[k].water = ret_waters[k]
              /\ data[k].energy_position <= energy_cutoff
              /\ waters[ret_waters[k]].scored = {data[k].energy_position}

\* a water scored exactly at the cutoff is returned after an earlier water
\* was rejected for its energy and another for being outside the map
C5_Witness ==
    /\ OptReturned
    /\ \E k \in DOMAIN data : data[k].energy_position = energy_cutoff
    /\ \E k \in DOMAIN waters :
          /\ is_in_map(waters[k].xyz)
          /\ \E e \in waters[k].scored : e > energy_cutoff
    /\ Len(ret_waters) < Len(waters)

\* best achievable position energy of a water: the minimum over the grid
\* points its search may use, or the energy where it stands
Achievable(w) ==
    LET sphere == coord_sphere(w)
    IN  IF sphere # {} THEN Min({MapEnergy(ad_map, q) : q \in sphere})
        ELSE MapEnergy(ad_map, w.from)

\* C6 as stated: a water with a lower achievable minimum is searched and
\* committed before any water with a higher one, whatever the input order.
C6_RankedOrder ==
    OptReturned =>
        \A a, b \in DOMAIN searched :
            Achievable(waters[searched[a]]) < Achievable(waters[searched[b]])
                => a < b

\* C6 amended: the waters are position-searched and committed in the order
\* of the input list.
C6_InputOrder ==
    /\ IsIncreasing(searched)
    /\ OptReturned /\ opt_flags.position =>
          \A k \in DOMAIN waters :
              is_in_map(waters[k].xyz) => InSeq(searched, k)

\* the second water of the list has the lower achievable minimum and was
\* searched second
C6_Witness ==
    /\ OptReturned
    /\ searched = <<1, 2>>
    /\ Achievable(waters[2]) < Achievable(waters[1])

\* C7: in the disordered-bond rotation and in the orientation search the
\* rotation applied in total (sweep steps plus the corrective rotation) is
\* congruent modulo 360 to the offset of the selected sample from the
\* starting angle.
C7_NetRotation ==
    \A k \in DOMAIN waters :
        /\ waters[k].turn % 360 = waters[k].d_offset % 360
        /\ waters[k].orient % 360 = waters[k].o_offset % 360

\* one water was swept about its bond and another (or the same) about its
\* own axis, each committed to a sample other than the starting one
C7_Witness ==
    /\ \E k \in DOMAIN waters :
          waters[k].turn > 360 /\ waters[k].d_offset % 360 # 0
    /\ \E k \in DOMAIN waters :
          waters[k].orient > 360 /\ waters[k].o_offset % 360 # 0

\* C8: after the disordered-bond rotation the anchor point and the anchor
\* vector of every attached water have turned about the bond axis by the
\* same net angle, modulo 360, as the oxygen.
C8_AnchorFollowsWater ==
    \A k \in DOMAIN waters :
        waters[k].anchor_turn % 360 = waters[k].turn % 360

\* C9: under 'boltzmann' the orientation search draws the committed angle
\* with _boltzmann_choice over the energies of all the sampled angles, and
\* completes.
C9_OrientationBoltzmann ==
    how = "boltzmann" =>
        /\ opt_pc \notin {"TypeError", "UnboundLocalError"}
        /\ \A k \in DOMAIN waters :
              waters[k].o_by \in {"none", "boltzmann choice"}

\* C10: when no grid point survives the annulus and angle filters the
\* position search returns the map energy of the water where it stands and
\* leaves its coordinates unchanged.
C10_PositionFallback ==
    \A k \in DOMAIN searched :
        LET w == waters[searched[k]]
        IN  w.size = 0 =>
               /\ w.xyz = w.from
               /\ w.scored = {MapEnergy(ad_map, w.xyz)}

\* a water whose search found no point was scored where it stands, on a
\* grid of which that energy is not zero
C10_Witness ==
    \E k \in DOMAIN searched :
        LET w == waters[searched[k]]
        IN  /\ w.size = 0
            /\ coord_sphere(w) = {}
            /\ w.scored = {MapEnergy(ad_map, w.xyz)}
            /\ MapEnergy(ad_map, w.xyz) # 0

\* the grid points the position search of a water may use, stated from
\* the distances and the angle themselves
Allowed(w) ==
    LET lo == IF w.anchor_type = "donor" THEN 15 ELSE 25
        hi == IF w.anchor_type = "donor" THEN 24 ELSE 34
    IN  {p \in GridNodes :
            /\ Sq(lo) <= Dist2(p, w.anchor[1])
            /\ Dist2(p, w.anchor[1]) <= Sq(hi)
            /\ AngleAtLeast(p, w.anchor[1], w.anchor[2], 145)}

\* C11: under 'best' the position search considers exactly the grid points
\* of the annulus [2.5, distance] around the anchor (1 A less for a donor
\* anchor) that make an angle of at least the minimum angle; when there is
\* one, the oxygen is put on a point of minimum energy among them and that
\* energy is returned.
C11_BestPosition ==
    how = "best" =>
        \A k \in DOMAIN searched :
            LET w == waters[searched[k]]
                S == Allowed(w)
            IN  /\ w.size = Cardinality(S)
                /\ S # {} =>
                      /\ w.xyz \in S
                      /\ w.scored = {MapEnergy(ad_map, w.xyz)}
                      /\ \A q \in S : MapEnergy(ad_map, w.xyz) <= MapEnergy(ad_map, q)

\* a donor-anchored water was moved onto the one point of lowest energy of
\* an annulus holding points of higher energy
C11_Witness ==
    /\ how = "best"
    /\ \E k \in DOMAIN searched :
          LET w == waters[searched[k]]
              S == Allowed(w)
          IN  /\ w.anchor_type = "donor"
              /\ w.xyz \in S
              /\ w.xyz # w.from
              /\ \A q \in S \ {w.xyz} : MapEnergy(ad_map, w.xyz) < MapEnergy(ad_map, q)
              /\ Cardinality(S) > 1

\* C12: an orientation search with no hydrogen-bond anchor near the water
\* completes and returns the energy 0.
C12_NoAnchorZeroEnergy ==
    /\ opt_pc # "ValueError"
    /\ opt_flags.rotation =>
          \A k \in DOMAIN data :
              ClosestAnchors(waters[data[k].water], receptor) = <<>>
                  => data[k].energy_orientation = {0}

\* C13: on a shell without waters activate_molecules_in_shell completes and
\* writes back an empty active column.
C13_EmptyShellCompletes ==
    (Len(shell_xyz) = 0 /\ act_pc # "call") =>
        /\ act_pc # "NameError"
        /\ act_pc = "done" => box_active = <<>>

\* half-width of the smoothing window, 0.25 A
HalfWidth == smooth \div 2

\* C16: strictly inside the window (rij - 0.25, rij + 0.25) the smoothed
\* distance is rij, and the vectorised smooth_distance with smooth = 0.5
\* and the scalar _smooth_distance agree on every distance.
C16_SnapAndAgree ==
    sm_pc \in {"scalar", "twice"} =>
        /\ sm_vector = sm_scalar
        /\ \A k \in DOMAIN sm_r :
              Abs(sm_r[k] - sm_reqm) < HalfWidth =>
                  /\ sm_vector[k] = sm_reqm
                  /\ sm_scalar[k] = sm_reqm

\* an array with a distance inside the window other than rij itself and a
\* distance outside it has been smoothed by both
C16_Witness ==
    /\ sm_pc = "scalar"
    /\ \E k \in DOMAIN sm_r :
          /\ sm_r[k] # sm_reqm
          /\ Abs(sm_r[k] - sm_reqm) < HalfWidth
          /\ sm_scalar[k] = sm_reqm
    /\ \E k \in DOMAIN sm_r :
          /\ Abs(sm_r[k] - sm_reqm) > HalfWidth
          /\ sm_vector[k] # sm_r[k]

\* C17: for a distance outside the window, |r - rij| >= 0.25, smoothing
\* twice gives what smoothing once gives.
C17_IdempotentOutside ==
    sm_pc = "twice" =>
        \A k \in DOMAIN sm_r :
            Abs(sm_r[k] - sm_reqm) >= HalfWidth =>
                /\ sm_twice.vector[k] = sm_vector[k]
                /\ sm_twice.scalar[k] = sm_scalar[k]

\* C17 as the code has it: a distance with |r - rij| > 0.25 is moved
\* towards rij by 0.25, and a second smoothing moves the result again.
C17_ShiftedEachTime ==
    sm_pc = "twice" =>
        \A k \in DOMAIN sm_r :
            Abs(sm_r[k] - sm_reqm) > HalfWidth =>
                /\ sm_vector[k] = IF sm_r[k] > sm_reqm
                                  THEN sm_r[k] - HalfWidth
                                  ELSE sm_r[k] + HalfWidth
                /\ sm_scalar[k] = sm_vector[k]
                /\ sm_twice.vector[k] # sm_vector[k]
                /\ sm_twice.scalar[k] # sm_scalar[k]

\* a distance beyond the window on either side has been smoothed twice
C17_Witness ==
    /\ sm_pc = "twice"
    /\ \E k \in DOMAIN sm_r : sm_r[k] > sm_reqm + HalfWidth + HalfWidth
    /\ \E k \in DOMAIN sm_r : sm_r[k] < sm_reqm - HalfWidth

Donor(t) == atom_par[t].hbond \in {1, 2}

Acceptor(t) == atom_par[t].hbond \in {3, 4, 5}

\* C14: the van der Waals entries of the pairwise table are the same for
\* (i, j) and (j, i): vdw_rij, vdw_epsij, A and B.
C14_VdwSymmetric ==
    ff_pc # "unused" =>
        \A i \in DOMAIN atom_par, j \in DOMAIN atom_par :
            /\ pairwise[<<i, j>>].vdw_rij = pairwise[<<j, i>>].vdw_rij
            /\ pairwise[<<i, j>>].vdw_epsij = pairwise[<<j, i>>].vdw_epsij
            /\ pairwise[<<i, j>>].A = pairwise[<<j, i>>].A
            /\ pairwise[<<i, j>>].B = pairwise[<<j, i>>].B

\* a table built over two types of different radius and well depth
C14_Witness ==
    /\ ff_pc = "built"
    /\ \E i \in DOMAIN atom_par, j \in DOMAIN atom_par :
          /\ atom_par[i].rii # atom_par[j].rii
          /\ atom_par[i].epsii # atom_par[j].epsii
          /\ pairwise[<<i, j>>].vdw_rij # atom_par[i].rii
          /\ pairwise[<<i, j>>].A > 0
          /\ pairwise[<<i, j>>].B > 0

\* C15: the hydrogen-bond entries of a pair are non-zero only when one type
\* is a donor (class 1 or 2) and the other an acceptor (class 3, 4 or 5),
\* and then (i, j) and (j, i) both carry rij_hb and epsij_hb of the acceptor.
C15_HbondDirectional ==
    ff_pc # "unused" =>
        \A i \in DOMAIN atom_par, j \in DOMAIN atom_par :
            LET e == pairwise[<<i, j>>]
            IN  /\ (e.hb_rij # 0 \/ e.hb_epsij # 0 \/ e.C # 0 \/ e.D # 0)
                      => \/ Donor(i) /\ Acceptor(j)
                         \/ Acceptor(i) /\ Donor(j)
                /\ (Donor(i) /\ Acceptor(j)) =>
                      /\ e.hb_rij = atom_par[j].rij_hb
                      /\ e.hb_epsij = atom_par[j].epsij_hb
                      /\ pairwise[<<j, i>>].hb_rij = atom_par[j].rij_hb
                      /\ pairwise[<<j, i>>].hb_epsij = atom_par[j].epsij_hb

\* a donor and an acceptor whose own hydrogen-bond parameters differ, and
\* two acceptors with parameters of their own whose pair carries none
C15_Witness ==
    /\ ff_pc = "built"
    /\ \E i \in DOMAIN atom_par, j \in DOMAIN atom_par :
          /\ Donor(i) /\ Acceptor(j)
          /\ atom_par[i].rij_hb # 0
          /\ atom_par[i].rij_hb # atom_par[j].rij_hb
          /\ pairwise[<<j, i>>].hb_rij = atom_par[j].rij_hb
          /\ pairwise[<<j, i>>].C # 0
    /\ \E i \in DOMAIN atom_par, j \in DOMAIN atom_par :
          /\ i # j /\ Acceptor(i) /\ Acceptor(j)
          /\ atom_par[i].rij_hb # 0 /\ atom_par[j].rij_hb # 0
          /\ pairwise[<<i, j>>].hb_rij = 0

\* the component of the result that a weight multiplies
Component(term) ==
    IF term = "hbond" THEN ff_energy.hb
    ELSE IF term = "vdW" THEN ff_energy.vdw
    ELSE IF term = "estat" THEN ff_energy.elec
    ELSE ff_energy.desolv

Terms == {"hbond", "vdW", "estat", "desolv"}

RECURSIVE SumOver(_)
SumOver(S) ==
    IF S = {} THEN 0
    ELSE LET t == CHOOSE t \in S : TRUE
         IN  Component(t) + SumOver(S \ {t})

\* C18: a term whose weight is zero is never evaluated by
\* intermolecular_energy, its component of the result is 0 and the total is
\* the sum of the other components.
C18_ZeroWeightSkipsTerm ==
    ff_pc \in {"energy", "TypeError"} =>
        \A term \in Terms :
            weights[term] = 0 =>
                /\ \A k \in DOMAIN ff_energy.terms :
                       term \notin ff_energy.terms[k].evaluated
                /\ ff_pc = "energy" =>
                       /\ Component(term) = 0
                       /\ ff_energy.total = SumOver(Terms \ {term})

\* an energy computed with the van der Waals term switched off, the other
\* terms evaluated on a pair of atoms and adding up to a non-zero total
C18_Witness ==
    /\ ff_pc = "energy"
    /\ weights.vdW = 0
    /\ ff_energy.hb # 0
    /\ ff_energy.elec # 0
    /\ ff_energy.desolv # 0
    /\ ff_energy.total # 0
    /\ \E k \in DOMAIN ff_energy.terms :
          ff_energy.terms[k].evaluated = {"hbond", "estat", "desolv"}

\* C19: deactivate_pairs([[a, b]]) with known types makes the entries
\* (a, b) and (b, a) inactive and changes nothing else of the table, and
\* intermolecular_energy adds nothing to any term for a pair of atoms whose
\* entry is inactive.
C19_DeactivatedPairAddsNothing ==
    /\ (/\ ff_pc = "deactivated"
        /\ Len(pairs) = 1
        /\ Len(pairs[1]) = 2
        /\ pairs[1][1] \in DOMAIN atom_par
        /\ pairs[1][2] \in DOMAIN atom_par)
          => /\ printed = <<>>
             /\ pairwise =
                  [p \in DOMAIN pairwise_before |->
                      IF p \in {<<pairs[1][1], pairs[1][2]>>,
                                <<pairs[1][2], pairs[1][1]>>}
                      THEN [pairwise_before[p] EXCEPT !.active = FALSE]
                      ELSE pairwise_before[p]]
    /\ ff_pc \in {"energy", "TypeError"} =>
          \A k \in DOMAIN ff_energy.terms :
              LET t == ff_energy.terms[k]
              IN  ~pairwise[<<t.i, t.j>>].active =>
                     /\ t.hb = 0 /\ t.vdw = 0 /\ t.elec = 0 /\ t.desolv = 0
                     /\ t.evaluated = {}

\* an energy over two pairs of atoms after a deactivation: the pair of two
\* different types whose entry is inactive adds nothing, the other pair does
C19_Witness ==
    /\ ff_pc = "energy"
    /\ n_deactivate > 0
    /\ \E k \in DOMAIN ff_energy.terms :
          LET t == ff_energy.terms[k]
          IN  /\ t.i # t.j
              /\ ~pairwise[<<t.i, t.j>>].active
              /\ ~pairwise[<<t.j, t.i>>].active
              /\ t.evaluated = {}
    /\ \E k \in DOMAIN ff_energy.terms :
          LET t == ff_energy.terms[k]
          IN  /\ pairwise[<<t.i, t.j>>].active
              /\ t.vdw # 0 /\ t.elec # 0

\* a pair of the list names a type the parameters do not have
UnknownType ==
    \E k \in DOMAIN pairs :
        /\ Len(pairs[k]) = 2
        /\ \E n \in 1..2 : pairs[k][n] \notin DOMAIN atom_par

\* C20: deactivating a pair with an unknown atom type fails with a lookup
\* error that the caller sees, and leaves the pairwise table as it was.
C20_UnknownTypeFails ==
    (n_deactivate > 0 /\ ff_pc # "built" /\ pairs # <<>> /\ UnknownType) =>
        /\ ff_pc = "LookupError"
        /\ pairwise = pairwise_before

(***************************************************************************)
(* The sweep of a rotatable bond                                           *)
(***************************************************************************)
\* C21: the sweep of a rotatable bond evaluates exactly floor(360/s) angles,
\* the start angle and floor(360/s) - 1 increments of s; every sampled
\* offset from the start is below 360 degrees, the offsets are pairwise
\* distinct, and the start angle is not sampled a second time.
C21_SweepSamples ==
    \A b \in DOMAIN sweeps :
       LET off == sweeps[b].offsets
       IN  /\ Len(off) = 360 \div rotation
           /\ Len(sweeps[b].energies) = 360 \div rotation
           /\ \A k \in DOMAIN off :
                 /\ off[k] = (k - 1) * rotation
                 /\ off[k] < 360
                 /\ k > 1 => off[k] % 360 # 0
           /\ \A j, k \in DOMAIN off : j # k => off[j] # off[k]

C21_Witness ==
    /\ opt_pc = "returned"
    /\ rotation = 90
    /\ \E b \in DOMAIN sweeps :
          /\ Len(sweeps[b].offsets) = 4
          /\ \E w \in DOMAIN sweeps[b].rot_waters :
                waters[sweeps[b].rot_waters[w]].d_offset = sweeps[b].offsets[4]

\* C22: the score of a group at every sampled angle is the sum over its
\* attached waters of min(E_water, 0): it is never positive, a water at a
\* positive energy contributes nothing, and under 'best' the selected angle
\* has the minimal group score of the sampled angles.
C22_ClippedGroupScore ==
    \A b \in DOMAIN sweeps :
       LET sw == sweeps[b]
       IN  /\ \A k \in DOMAIN sw.energies :
                 /\ sw.energies[k] =
                       SumSeq([j \in DOMAIN sw.energy_waters[k] |->
                                 Min({sw.energy_waters[k][j], 0})])
                 /\ sw.energies[k] <= 0
           /\ \E k \in DOMAIN sw.energies :
                 disordered_energies[b] = sw.energies[k]
           /\ how = "best" =>
                 \A k \in DOMAIN sw.energies :
                    disordered_energies[b] <= sw.energies[k]

C22_Witness ==
    /\ opt_pc = "returned"
    /\ how = "best"
    /\ \E b \in DOMAIN sweeps :
          LET sw == sweeps[b]
          IN  /\ disordered_energies[b] < sw.energies[1]
              /\ \E k \in DOMAIN sw.energy_waters :
                    \E j \in DOMAIN sw.energy_waters[k] :
                       sw.energy_waters[k][j] > 0

(***************************************************************************)
(* The position filter of optimize                                         *)
(***************************************************************************)
Rejected(i) == InSeq(to_be_removed, i)

\* the water was inside the map when the loop reached it and its position
\* was scored at or below the cutoff
SurvivedPositionFilter(w) ==
    /\ is_in_map(w.from)
    /\ w.scored # {}
    /\ \A e \in w.scored : e <= energy_cutoff

\* C23: a water gets explicit hydrogens/lone pairs and an orientation search
\* only after its position was scored at or below energy_cutoff inside the
\* map; a water rejected for being outside the map or above the cutoff is
\* never extended, never orientation-searched, and no later step changes it.
C23_FilterBeforeExtension ==
    /\ [](\A i \in DOMAIN waters :
            /\ waters[i].tip5p => SurvivedPositionFilter(waters[i])
            /\ waters[i].o_by # "none" => waters[i].tip5p
            /\ Rejected(i) =>
                  /\ ~SurvivedPositionFilter(waters[i])
                  /\ ~waters[i].tip5p
                  /\ waters[i].o_by = "none")
    /\ [][\A i \in DOMAIN waters : Rejected(i) => waters'[i] = waters[i]]_vars

C23_Witness ==
    /\ opt_pc = "returned"
    /\ \E i, j \in DOMAIN waters :
          /\ Rejected(i)
          /\ waters[i].scored # {}
          /\ waters[i].xyz # waters[i].from
          /\ InSeq(to_be_removed, j) = FALSE
          /\ i < j
          /\ waters[j].tip5p
          /\ waters[j].o_by # "none"

(***************************************************************************)
(* Polarity of the pairwise hydrogen bond energy                           *)
(***************************************************************************)
\* score of the sites of `sites` against the anchors of polarity `type`,
\* the water being at the orientation it was committed to
PolarityScore(w, sites, type) ==
    LET anchors == ClosestAnchors(w, receptor)
    IN  SumSeq([site \in 1..4 |->
                  SumSeq([k \in DOMAIN anchors |->
                            IF site \in sites /\ ReceptorAtoms[anchors[k]].type = type
                            THEN PairScore(site, anchors[k], w.orient, ref_id(w))
                            ELSE 0])])

\* C24: in the pairwise energy the sites 1 and 2 of the water (its
\* hydrogens) score as donors and only against acceptor anchors, the other
\* sites as acceptors and only against donor anchors; a site whose anchors
\* all have its own polarity adds 0 to the energy.
C24_OppositePolarityOnly ==
    \A k \in DOMAIN data :
       data[k].energy_orientation # {} =>
          LET w == waters[data[k].water]
          IN  data[k].energy_orientation =
                 {PolarityScore(w, {1, 2}, "acceptor")
                    + PolarityScore(w, {3, 4}, "donor")}

(***************************************************************************)
(* The connections of the returned waters                                  *)
(***************************************************************************)
\* C25: after optimize with a connections table, whatever the table holds
\* and whichever waters were rejected, every remaining row refers by
\* molecule_j to the place in the returned list of the water it referred to
\* before the call, and no row refers to a rejected water.  `connections` is
\* the table before the return, ret_connections' the table returned.
C25_RowsFollowWaters ==
    [][(opt_pc = "loop" /\ opt_pc' = "returned" /\ ~connections.none) =>
          LET before == SelectSeq(connections.rows,
                                  LAMBDA r : ~Rejected(r.molecule_j))
              after == ret_connections'.rows
          IN  /\ Len(after) = Len(before)
              /\ \A k \in DOMAIN after :
                    /\ after[k].atom_i = before[k].atom_i
                    /\ after[k].molecule_j \in DOMAIN ret_waters'
                    /\ ret_waters'[after[k].molecule_j] = before[k].molecule_j]_vars

(***************************************************************************)
(* The while loop of a cluster                                             *)
(***************************************************************************)
InLoop == act_pc = "while"

\* the waters of the cluster the loop is working on
CurrentCluster == Reach(pool \cup to_activate, shell_xyz, cluster_distance)

\* C26: the selection loop of a cluster terminates: each pass removes at
\* least one water from the pool, the representative(s) it chose; a water
\* that left the pool never comes back, and it left either as an activated
\* representative or as a water clashing with one; no water is activated
\* twice.
C26_LoopTerminates ==
    /\ [][(InLoop /\ pool # {} /\ InLoop') =>
            LET chosen == to_activate' \ to_activate
                gone == pool \ pool'
            IN  /\ pool' \subseteq pool
                /\ chosen # {}
                /\ chosen \subseteq gone
                /\ to_activate \subseteq to_activate'
                /\ \A w \in gone :
                      w \in chosen \/ \E b \in chosen : Clash(b, w)]_vars
    /\ [](InLoop =>
            /\ pool \cap to_activate = {}
            /\ \A w \in CurrentCluster :
                  \/ w \in pool
                  \/ w \in to_activate
                  \/ \E b \in to_activate : Clash(b, w))
    /\ (InLoop ~> (InLoop /\ pool = {}))

\* the loop of a cluster of three waters without xray water ended after two
\* passes, one water having been dropped as a clash
C26_Witness ==
    /\ InLoop
    /\ pool = {}
    /\ \A k \in Waters : ~shell_xray[k]
    /\ Cardinality(CurrentCluster) = 3
    /\ Cardinality(to_activate) = 2
    /\ \E w \in CurrentCluster \ to_activate :
          \E b \in to_activate : Clash(b, w)
====
